---- MODULE Spec2Model ----
(***************************************************************************)
(* A model of clapd (src/main.rs): a one-shot command-line tool that turns *)
(* a parsed `Service` options record into the text of a systemd service    *)
(* unit and of a timer unit and writes both through buffered writers.      *)
(*                                                                         *)
(* Texts are TLA+ strings, line breaks included, so that the rendered text *)
(* can be split into physical lines again.  Option<T> is a sequence of     *)
(* length 0 (None) or 1 (Some), Vec<T> a sequence.                         *)
(***************************************************************************)
EXTENDS Integers, Sequences, FiniteSets, TLC

VARIABLES
    opt,             \* the parsed options record (Service::parse())
    pc,              \* position of main
    files,           \* path -> NoFile or File(content)
    files0,          \* the files as they were when the process started
    stdout,          \* what reached standard output, one element for each
                     \* println! that delivered bytes: a whole line ends "\n"
    stdout_fd,       \* how file descriptor 1 answers a write: "open" (every
                     \* write succeeds), "failing" (a write can fail) or
                     \* "bad" (not open for writing: every write is EBADF)
    exit_code,       \* NotExited, 0, 1 or PanicExit
    service_writer,  \* Closed, or Writer(the bytes in the BufWriter's buffer)
    timer_writer,    \* Closed, or Writer(the bytes in the BufWriter's buffer)
    calls,           \* the file system calls made so far
    rendered         \* the texts returned by Service::service / Service::timer

vars == <<opt, pc, files, files0, stdout, stdout_fd, exit_code,
          service_writer, timer_writer, calls, rendered>>

-----------------------------------------------------------------------------
(* Bounds of the model *)

\* longest Vec option (before, after, conflicts, requires) that is enumerated
MaxList == 2

-----------------------------------------------------------------------------
(* Option<T> *)

None == <<>>
Some(v) == <<v>>
is_none(o) == o = <<>>

-----------------------------------------------------------------------------
(* Strings *)

StartsWith(s, p) == Len(s) >= Len(p) /\ SubSeq(s, 1, Len(p)) = p

EndsWith(s, p) == Len(s) >= Len(p) /\ SubSeq(s, Len(s) - Len(p) + 1, Len(s)) = p

\* the positions of the line breaks of a text
LineBreaks(s) == {i \in 1..Len(s) : SubSeq(s, i, i) = "\n"}

\* the physical lines of a text, each without its line break; what follows
\* the last line break is a line when it is not empty
Lines(s) ==
    LET B == LineBreaks(s)
        brk(k) == CHOOSE b \in B : Cardinality({c \in B : c < b}) = k - 1
        last == IF B = {} THEN 0 ELSE brk(Cardinality(B))
        n == Cardinality(B) + (IF last < Len(s) THEN 1 ELSE 0)
        from(k) == IF k = 1 THEN 1 ELSE brk(k - 1) + 1
        to(k) == IF k <= Cardinality(B) THEN brk(k) - 1 ELSE Len(s)
    IN  [k \in 1..n |-> SubSeq(s, from(k), to(k))]

HasLineBreak(s) == LineBreaks(s) # {}

RECURSIVE Concat(_)
Concat(ss) == IF ss = <<>> THEN "" ELSE Head(ss) \o Concat(Tail(ss))

RECURSIVE Doubled(_, _)
Doubled(s, n) == IF n = 0 THEN s ELSE Doubled(s \o s, n - 1)

-----------------------------------------------------------------------------
(* impl fmt::Display for ServiceType / RestartType *)

ServiceType == {"Simple", "Forking", "Oneshot", "Dbus", "Notify", "Idle"}

ServiceType_fmt(t) ==
    CASE t = "Simple"  -> "simple"
      [] t = "Forking" -> "forking"
      [] t = "Oneshot" -> "oneshot"
      [] t = "Dbus"    -> "dbus"
      [] t = "Notify"  -> "notify"
      [] t = "Idle"    -> "idle"

RestartType ==
    {"No", "Always", "OnSuccess", "OnFailure", "OnAbnormal", "OnAbort", "OnWatchdog"}

RestartType_fmt(r) ==
    CASE r = "No"         -> "no"
      [] r = "Always"     -> "always"
      [] r = "OnSuccess"  -> "on-success"
      [] r = "OnFailure"  -> "on-failure"
      [] r = "OnAbnormal" -> "on-abnormal"
      [] r = "OnAbort"    -> "on-abort"
      [] r = "OnWatchdog" -> "on-watchdog"

\* Display of bool and of usize
bool_fmt(b) == IF b THEN "true" ELSE "false"

usize_fmt(n) == ToString(n)

-----------------------------------------------------------------------------
(* The file system the paths are resolved against *)

\* the paths that exist, each with the absolute, symlink-free path it names
RealPath ==
    [p \in {"/bin/true", "bin/tool", "/opt/app/run"} |->
        CASE p = "/bin/true"    -> "/usr/bin/true"
          [] p = "bin/tool"     -> "/srv/work/bin/tool"
          [] p = "/opt/app/run" -> "/opt/app/run"]

\* Path::exists
exists(p) == p \in DOMAIN RealPath

\* canonicalize that returns every path as it was given
canonicalize_unresolved(p) == p

\* fn canonicalize(path: &Path) -> PathBuf
canonicalize(p) == IF p \in DOMAIN RealPath THEN RealPath[p] ELSE p

\* PathBuf::join(String)
join(dir, name) ==
    IF StartsWith(name, "/") THEN name
    ELSE IF dir = "" \/ EndsWith(dir, "/") THEN dir \o name
    ELSE dir \o "/" \o name

-----------------------------------------------------------------------------
(* impl Service: the two renderers.  Each renderer is the sequence of its   *)
(* push_str calls; the String it returns is their concatenation.            *)

\* key_lines that walks the values from the last to the first
key_lines_reversed(key, vals) ==
    [i \in 1..Len(vals) |-> key \o "=" \o vals[Len(vals) + 1 - i] \o "\n"]

\* format!("<key>={}\n", v) for the v of an Option or of each element of a Vec
key_lines(key, vals) == [i \in 1..Len(vals) |-> key \o "=" \o vals[i] \o "\n"]

\* Service::service, lines 120-138
unit_section(o) ==
    <<"[Unit]\n">>
    \o key_lines("Description", o.description)
    \o key_lines("Before", o.before)
    \o key_lines("After", o.after)
    \o key_lines("Conflicts", o.conflicts)
    \o key_lines("Requires", o.requires)
    \o key_lines("OnFailure", o.description)

\* Service::service, lines 140-161
service_section(o) ==
    <<"\n[Service]\n">>
    \o <<"Type=" \o ServiceType_fmt(o.service_type) \o "\n">>
    \o <<"ExecStart=" \o canonicalize(o.exec_start) \o "\n">>
    \o key_lines("ExecReload", [i \in 1..Len(o.exec_reload) |-> canonicalize(o.exec_reload[i])])
    \o key_lines("ExecStop", [i \in 1..Len(o.exec_stop) |-> canonicalize(o.exec_stop[i])])
    \o key_lines("Restart", [i \in 1..Len(o.restart) |-> RestartType_fmt(o.restart[i])])
    \o key_lines("RestartSec", [i \in 1..Len(o.restart_sec) |-> usize_fmt(o.restart_sec[i])])
    \o key_lines("User", o.user)
    \o key_lines("Group", o.group)

\* install_section whose header has no blank line before it
install_section_without_blank_line(o) ==
    <<"[Install]\n">>
    \o <<"WantedBy=" \o o.wanted_by \o "\n">>

\* Service::service, lines 163-164
install_section(o) ==
    <<"\n[Install]\n">>
    \o <<"WantedBy=" \o o.wanted_by \o "\n">>

\* the push_str calls of Service::service, in order
service_pushes(o) == unit_section(o) \o service_section(o) \o install_section(o)

\* fn service(&self) -> String
service(o) == Concat(service_pushes(o))

\* timer_pushes that writes Persistent= only when the flag is set
timer_pushes_persistent_when_set(o) ==
    <<"[Unit]\n">>
    \o <<"\n[Timer]\n">>
    \o key_lines("OnCalendar", o.on_calendar)
    \o key_lines("OnUnitActiveSec", o.on_unit_active_sec)
    \o key_lines("OnUnitInactiveSec", o.on_unit_inactive_sec)
    \o (IF o.persistent THEN <<"Persistent=true\n">> ELSE <<>>)
    \o <<"\n[Install]\n">>
    \o <<"WantedBy=timers.target\n">>

\* the push_str calls of Service::timer, in order
timer_pushes(o) ==
    <<"[Unit]\n">>
    \o <<"\n[Timer]\n">>
    \o key_lines("OnCalendar", o.on_calendar)
    \o key_lines("OnUnitActiveSec", o.on_unit_active_sec)
    \o key_lines("OnUnitInactiveSec", o.on_unit_inactive_sec)
    \o <<"Persistent=" \o bool_fmt(o.persistent) \o "\n">>
    \o <<"\n[Install]\n">>
    \o <<"WantedBy=timers.target\n">>

\* fn timer(&self) -> String
timer(o) == Concat(timer_pushes(o))

-----------------------------------------------------------------------------
(* The options records that are enumerated *)

\* the record clap builds when only --name and --exec-start are given
Defaults ==
    [description |-> None, before |-> <<>>, after |-> <<>>, conflicts |-> <<>>,
     requires |-> <<>>, on_failure |-> None,
     service_type |-> "Simple", exec_start |-> "/bin/true", exec_reload |-> None,
     exec_stop |-> None, restart |-> None, restart_sec |-> None, user |-> None,
     group |-> None,
     wanted_by |-> "multi-user.target",
     timer |-> FALSE, persistent |-> FALSE, on_calendar |-> None,
     on_unit_active_sec |-> None, on_unit_inactive_sec |-> None,
     accuracy_sec |-> None,
     output |-> "/etc/systemd/system/", no_check |-> FALSE, name |-> "foo"]

SeqsUpTo(S, n) == UNION {[1..k -> S] : k \in 0..n}

Opt(S) == {None} \cup {Some(v) : v \in S}

\* records that vary the options of the [Unit] section
UnitOptions ==
    {[Defaults EXCEPT !.description = d, !.before = b, !.after = a,
                      !.conflicts = c, !.requires = r, !.on_failure = f] :
        d \in Opt({"demo", "x\n[Install]"}),
        b \in SeqsUpTo({"a.service", "b.service"}, MaxList),
        a \in SeqsUpTo({"a.service", "b.service"}, MaxList),
        c \in SeqsUpTo({"c.service"}, MaxList),
        r \in SeqsUpTo({"r.service", "m\nAfter=z.service"}, MaxList),
        f \in Opt({"rescue.service"})}

\* records that vary the options of the [Service] and [Install] sections
ServiceOptions ==
    {[Defaults EXCEPT !.service_type = t, !.exec_start = es, !.exec_reload = er,
                      !.exec_stop = ep, !.restart = rs, !.restart_sec = sec,
                      !.user = u, !.group = g, !.wanted_by = w] :
        t \in {"Simple", "Oneshot"},
        es \in {"/bin/true", "bin/tool", "/nope/run"},
        er \in Opt({"bin/tool", "/nope/reload"}),
        ep \in Opt({"/opt/app/run", "/nope/stop"}),
        rs \in Opt({"OnFailure"}),
        sec \in Opt({5}),
        u \in Opt({"svc", "u\nGroup=root"}),
        g \in Opt({"daemon"}),
        w \in {"multi-user.target", "[Install]"}}

\* records that vary the two enumerations and the restart delay
EnumOptions ==
    {[Defaults EXCEPT !.service_type = t, !.restart = rs, !.restart_sec = sec] :
        t \in ServiceType, rs \in Opt(RestartType), sec \in Opt({0, 5, 120})}

\* records that vary the options of the timer
TimerOptions ==
    {[Defaults EXCEPT !.timer = tm, !.persistent = p, !.on_calendar = oc,
                      !.on_unit_active_sec = ua, !.on_unit_inactive_sec = ui,
                      !.accuracy_sec = acc, !.wanted_by = w, !.user = u] :
        tm \in BOOLEAN, p \in BOOLEAN,
        oc \in Opt({"daily", "weekly\nPersistent=true"}),
        ua \in Opt({"1h"}), ui \in Opt({"30min"}), acc \in Opt({"1s"}),
        w \in {"multi-user.target", "default.target"},
        u \in Opt({"svc"})}

RenderOptions == UnitOptions \cup ServiceOptions \cup EnumOptions \cup TimerOptions

-----------------------------------------------------------------------------
(* The state of a process *)

\* a path that names no file, and a file with its content
NoFile == [exists |-> FALSE, data |-> ""]
File(data) == [exists |-> TRUE, data |-> data]

\* exit_code while the process runs
NotExited == -1

\* a BufWriter that is not there (never made, or dropped), and one with its buffer
Closed == [open |-> FALSE, buf |-> ""]
Writer(buf) == [open |-> TRUE, buf |-> buf]

service_path(o) == join(o.output, o.name \o ".service")
timer_path(o) == join(o.output, o.name \o ".timer")

NothingRendered == [service |-> None, timer |-> None]

Idle(o) ==
    /\ opt = o
    /\ stdout = <<>>
    /\ exit_code = NotExited
    /\ service_writer = Closed
    /\ timer_writer = Closed
    /\ calls = <<>>
    /\ rendered = NothingRendered

-----------------------------------------------------------------------------
(* The renderers called on their own *)

InitRender ==
    /\ \E o \in RenderOptions : Idle(o)
    /\ pc = "render"
    /\ files = [p \in {service_path(opt), timer_path(opt)} |-> NoFile]
    /\ files0 = files
    /\ stdout_fd = "open"

CallService ==
    /\ pc = "render"
    /\ is_none(rendered.service)
    /\ rendered' = [rendered EXCEPT !.service = Some(service(opt))]
    /\ UNCHANGED <<opt, pc, files, files0, stdout, stdout_fd, exit_code,
                   service_writer, timer_writer, calls>>

CallTimer ==
    /\ pc = "render"
    /\ is_none(rendered.timer)
    /\ rendered' = [rendered EXCEPT !.timer = Some(timer(opt))]
    /\ UNCHANGED <<opt, pc, files, files0, stdout, stdout_fd, exit_code,
                   service_writer, timer_writer, calls>>

NextRender == CallService \/ CallTimer

SpecRender == InitRender /\ [][NextRender]_vars

-----------------------------------------------------------------------------
(* std::io::BufWriter<File>, as main uses it *)

\* the capacity BufWriter::new gives the buffer
BufCap == 8192

\* values long enough for a rendered text to reach the buffer's capacity: the
\* description is written twice into the service text, on_calendar once into
\* the timer text
LongDescription == Doubled("x", 12)
LongCalendar == Doubled("x", 13)

\* the byte counts a write call on the file may return for len bytes
write_counts(len) == 0..len

\* BufWriter::write(data) on an empty buffer: data shorter than the capacity
\* is copied to the buffer and nothing reaches the file; longer data goes to
\* the file in one write call, which fails or writes a prefix of the data of
\* the length the call returns (main ignores the count, line 217).
\* disk is what the file receives, buf what the buffer holds afterwards.
write_outcomes(data) ==
    IF Len(data) < BufCap
    THEN {[ok |-> TRUE, buf |-> data, disk |-> ""]}
    ELSE {[ok |-> FALSE, buf |-> "", disk |-> ""]}
         \cup {[ok |-> TRUE, buf |-> "", disk |-> SubSeq(data, 1, n)] :
                 n \in write_counts(Len(data))}

\* impl Drop for BufWriter: flush_buf writes the buffer to the file in a loop
\* of write calls and stops at the first that fails or writes nothing; what
\* the earlier calls wrote stays in the file, and drop ignores the error.  An
\* empty buffer makes no call.  disk is what the file receives.
flush_outcomes(buf) ==
    IF buf = ""
    THEN {[ok |-> TRUE, disk |-> ""]}
    ELSE {[ok |-> n = Len(buf), disk |-> SubSeq(buf, 1, n)] :
            n \in write_counts(Len(buf))}

Call(op, path, ok) == [op |-> op, path |-> path, ok |-> ok]

-----------------------------------------------------------------------------
(* fn main *)

\* validation of the record fails (lines 196, 201)
ValidationFails(o) ==
    \/ ~exists(o.exec_start) /\ ~o.no_check
    \/ o.timer /\ is_none(o.on_calendar)

\* the records main is run on: every combination of short values, and one
\* record for each of the two texts reaching the buffer's capacity
MainOptions ==
    {[Defaults EXCEPT !.exec_start = es, !.no_check = nc, !.timer = tm,
                      !.on_calendar = oc, !.output = out] :
        es \in {"/bin/true", "/nope/run"},
        nc \in BOOLEAN,
        tm \in BOOLEAN,
        oc \in Opt({"daily"}),
        out \in {"/etc/systemd/system/", "out"}}
    \cup {[Defaults EXCEPT !.description = Some(LongDescription)],
          [Defaults EXCEPT !.timer = TRUE, !.on_calendar = Some(LongCalendar)]}

\* the record is one of the two with a long value
IsLong(o) == o.description = Some(LongDescription) \/ o.on_calendar = Some(LongCalendar)

OldContent == "# written by an earlier run\n"

\* what the two paths name before a run: for the two long records both files
\* are there from an earlier run, for the others each is there or not
InitialFiles(o) ==
    IF IsLong(o)
    THEN {[p \in {service_path(o), timer_path(o)} |-> File(OldContent)]}
    ELSE [{service_path(o), timer_path(o)} -> {NoFile, File(OldContent)}]

\* the standard outputs a record is run with: one that takes every line; for
\* the short records, one that is not open for writing; and, for the records
\* that fail validation and for the short records with the check of
\* exec_start on and a calendar exactly when the timer flag is set, one whose
\* writes can fail
InitialStdout(o) ==
    {"open"}
    \cup (IF IsLong(o) THEN {} ELSE {"bad"})
    \cup (IF \/ ValidationFails(o)
             \/ /\ ~o.no_check
                /\ o.description = None
                /\ o.on_calendar = (IF o.timer THEN Some("daily") ELSE None)
          THEN {"failing"}
          ELSE {})

Init ==
    /\ \E o \in MainOptions : Idle(o)
    /\ pc = "start"
    /\ files \in InitialFiles(opt)
    /\ files0 = files
    /\ stdout_fd \in InitialStdout(opt)

\* the exit code of a process whose main thread panicked
PanicExit == 101

\* process::exit(code): the process ends, no destructor runs
exit(code) ==
    /\ pc' = "exited"
    /\ exit_code' = code

\* println!(line) formats the line and its line break into the buffer of
\* stdout and flushes it.  The flush succeeds and the whole line is out; or,
\* on a stdout whose writes can fail, it fails and println! panics: the
\* writes made so far, and the flush of the buffer when the process ends,
\* have delivered the first bytes of the line, from none to all of them.
\* On a descriptor that is not open for writing every write is EBADF, which
\* stdout takes for success: println! returns and nothing is delivered.
println_outcomes(line) ==
    IF stdout_fd = "bad"
    THEN {[panic |-> FALSE, taken |-> 0]}
    ELSE {[panic |-> FALSE, taken |-> Len(line) + 1]}
         \cup (IF stdout_fd = "failing"
               THEN {[panic |-> TRUE, taken |-> n] : n \in 0..(Len(line) + 1)}
               ELSE {})

\* stdout after a println!(line) that delivered the first taken bytes
println(line, taken) ==
    stdout' = IF taken = 0
              THEN stdout
              ELSE Append(stdout, SubSeq(line \o "\n", 1, taken))

\* a dropped BufWriter w of the file at path flushed f to it
flush_to(fs, path, w, f) ==
    IF w.buf = "" THEN fs ELSE [fs EXCEPT ![path] = File(@.data \o f.disk)]

\* main is left by its end or by a panic with fs, cs, sw, tw reached:
\* timer_writer, then service_writer, is dropped, each drop flushes its buffer
\* to its file, ignoring the result, and the process ends with the code
drop_locals(code, fs, cs, sw, tw) ==
    /\ \E tf \in flush_outcomes(tw.buf), sf \in flush_outcomes(sw.buf) :
        /\ files' = flush_to(flush_to(fs, timer_path(opt), tw, tf),
                             service_path(opt), sw, sf)
        /\ calls' = cs
                    \o (IF tw.buf # ""
                        THEN <<Call("flush", timer_path(opt), tf.ok)>> ELSE <<>>)
                    \o (IF sw.buf # ""
                        THEN <<Call("flush", service_path(opt), sf.ok)>> ELSE <<>>)
    /\ service_writer' = Closed
    /\ timer_writer' = Closed
    /\ pc' = "exited"
    /\ exit_code' = code

\* println!(line) and what follows it, with fs, cs, sw, tw reached: main goes
\* on at next, or calls process::exit(1) when next is "exited"; a println!
\* that panics unwinds main
report(line, next, fs, cs, sw, tw) ==
    \E p \in println_outcomes(line) :
        /\ println(line, p.taken)
        /\ IF p.panic
           THEN drop_locals(PanicExit, fs, cs, sw, tw)
           ELSE /\ files' = fs
                /\ calls' = cs
                /\ service_writer' = sw
                /\ timer_writer' = tw
                /\ IF next = "exited"
                   THEN exit(1)
                   ELSE pc' = next /\ UNCHANGED exit_code

\* Validate without the check of on_calendar (lines 201-206 left out)
Validate_without_calendar_check ==
    /\ pc = "start"
    /\ IF ~exists(opt.exec_start) /\ ~opt.no_check
       THEN report("Executable " \o opt.exec_start \o " does not exist", "exited",
                   files, calls, service_writer, timer_writer)
       ELSE /\ pc' = "create_service"
            /\ UNCHANGED <<stdout, exit_code, files, calls, service_writer, timer_writer>>
    /\ UNCHANGED <<opt, files0, stdout_fd, rendered>>

\* lines 196-206: the two checks made before anything is written
Validate ==
    /\ pc = "start"
    /\ IF ~exists(opt.exec_start) /\ ~opt.no_check
       THEN report("Executable " \o opt.exec_start \o " does not exist", "exited",
                   files, calls, service_writer, timer_writer)
       ELSE IF opt.timer /\ is_none(opt.on_calendar)
       THEN report("Timer flag was specified but no OnCalendar", "exited",
                   files, calls, service_writer, timer_writer)
       ELSE /\ pc' = "create_service"
            /\ UNCHANGED <<stdout, exit_code, files, calls, service_writer, timer_writer>>
    /\ UNCHANGED <<opt, files0, stdout_fd, rendered>>

\* lines 208-215: File::create(&service_path), BufWriter::new
CreateService ==
    /\ pc = "create_service"
    /\ \E ok \in BOOLEAN :
        LET cs == Append(calls, Call("create", service_path(opt), ok))
        IN  IF ok
            THEN /\ files' = [files EXCEPT ![service_path(opt)] = File("")]
                 /\ calls' = cs
                 /\ service_writer' = Writer("")
                 /\ pc' = "write_service"
                 /\ UNCHANGED <<stdout, exit_code, timer_writer>>
            ELSE report("Error creating sevice file " \o service_path(opt), "exited",
                        files, cs, service_writer, timer_writer)
    /\ UNCHANGED <<opt, files0, stdout_fd, rendered>>

\* lines 216-222: service_writer.write(opt.service().as_bytes())
WriteService ==
    /\ pc = "write_service"
    /\ rendered' = [rendered EXCEPT !.service = Some(service(opt))]
    /\ \E w \in write_outcomes(service(opt)) :
        LET fs == [files EXCEPT ![service_path(opt)] = File(@.data \o w.disk)]
            cs == Append(calls, Call("write", service_path(opt), w.ok))
            sw == Writer(service_writer.buf \o w.buf)
        IN  IF w.ok
            THEN report("Wrote service file " \o service_path(opt), "create_timer",
                        fs, cs, sw, timer_writer)
            ELSE report("Error writing service file " \o service_path(opt), "exited",
                        fs, cs, sw, timer_writer)
    /\ UNCHANGED <<opt, files0, stdout_fd>>

\* lines 224-231: File::create(&timer_path), BufWriter::new
CreateTimer ==
    /\ pc = "create_timer"
    /\ \E ok \in BOOLEAN :
        LET cs == Append(calls, Call("create", timer_path(opt), ok))
        IN  IF ok
            THEN /\ files' = [files EXCEPT ![timer_path(opt)] = File("")]
                 /\ calls' = cs
                 /\ timer_writer' = Writer("")
                 /\ pc' = "write_timer"
                 /\ UNCHANGED <<stdout, exit_code, service_writer>>
            ELSE report("Error creating timer file " \o timer_path(opt), "exited",
                        files, cs, service_writer, timer_writer)
    /\ UNCHANGED <<opt, files0, stdout_fd, rendered>>

\* lines 232-238: timer_writer.write(opt.timer().as_bytes())
WriteTimer ==
    /\ pc = "write_timer"
    /\ rendered' = [rendered EXCEPT !.timer = Some(timer(opt))]
    /\ \E w \in write_outcomes(timer(opt)) :
        LET fs == [files EXCEPT ![timer_path(opt)] = File(@.data \o w.disk)]
            cs == Append(calls, Call("write", timer_path(opt), w.ok))
            tw == Writer(timer_writer.buf \o w.buf)
        IN  IF w.ok
            THEN report("Wrote timer file " \o timer_path(opt), "return",
                        fs, cs, service_writer, tw)
            ELSE report("Error writing timer file " \o timer_path(opt), "exited",
                        fs, cs, service_writer, tw)
    /\ UNCHANGED <<opt, files0, stdout_fd>>

\* line 239: main returns
Return ==
    /\ pc = "return"
    /\ drop_locals(0, files, calls, service_writer, timer_writer)
    /\ UNCHANGED <<opt, files0, stdout, stdout_fd, rendered>>

Next ==
    \/ Validate
    \/ CreateService
    \/ WriteService
    \/ CreateTimer
    \/ WriteTimer
    \/ Return

Spec == Init /\ [][Next]_vars

-----------------------------------------------------------------------------
(* What a run has done, read from its state *)

\* the whole line is on standard output
Printed(line) == \E i \in 1..Len(stdout) : stdout[i] = line \o "\n"

\* standard output holds nothing, or the first bytes of the line and no more
PartOf(line) ==
    \/ stdout = <<>>
    \/ Len(stdout) = 1 /\ StartsWith(line \o "\n", stdout[1])

\* some file system call was made on the path
Attempted(path) == \E i \in 1..Len(calls) : calls[i].path = path

\* File::create or write failed on the path: the error arm of main was taken
Failed(path) ==
    \E i \in 1..Len(calls) :
        calls[i].path = path /\ calls[i].op \in {"create", "write"} /\ ~calls[i].ok

Exited == pc = "exited"

-----------------------------------------------------------------------------
(* Claims about main *)

\* C1 (as stated): in a run without the timer flag, <name>.timer is never
\* created or written, no timer confirmation is printed, and a missing
\* on_calendar does not stop the run.
C1_NoTimerArtifactWithoutFlag ==
    ~opt.timer =>
        /\ ~Attempted(timer_path(opt))
        /\ files[timer_path(opt)] = files0[timer_path(opt)]
        /\ ~Printed("Wrote timer file " \o timer_path(opt))
        /\ ~Printed("Timer flag was specified but no OnCalendar")

\* the line validation prints for the record when it fails
Diagnostic(o) ==
    IF ~exists(o.exec_start) /\ ~o.no_check
    THEN "Executable " \o o.exec_start \o " does not exist"
    ELSE "Timer flag was specified but no OnCalendar"

\* C2 (as stated): when validation fails (exec_start missing and no_check
\* false, or the timer flag set and on_calendar absent) the run prints a
\* diagnostic line and exits non-zero; nothing was rendered, no file system
\* call was made and both files are as they were.
C2_FailedValidationPrintsAndTouchesNothing ==
    ValidationFails(opt) /\ pc # "start" =>
        /\ Exited
        /\ exit_code \notin {NotExited, 0}
        /\ Len(stdout) = 1 /\ EndsWith(stdout[1], "\n")
        /\ calls = <<>>
        /\ rendered = NothingRendered
        /\ files = files0

\* C2 (amended): when validation fails the run ends at once, before any
\* rendering and any file system call, with both files as they were.  Its
\* diagnostic line is printed and the exit code is 1; or standard output is
\* not open for writing, the line is lost and the exit code is 1; or the
\* write to standard output fails, the exit code is that of a panic and
\* standard output holds the first bytes of that line, from none to all.
C2_FailedValidationTouchesNothing ==
    ValidationFails(opt) /\ pc # "start" =>
        /\ Exited
        /\ \/ exit_code = 1 /\ stdout_fd # "bad" /\ stdout = <<Diagnostic(opt) \o "\n">>
           \/ exit_code = 1 /\ stdout_fd = "bad" /\ stdout = <<>>
           \/ exit_code = PanicExit /\ stdout_fd = "failing" /\ PartOf(Diagnostic(opt))
        /\ calls = <<>>
        /\ rendered = NothingRendered
        /\ files = files0

C2_Witness ==
    /\ Exited
    /\ exists(opt.exec_start)
    /\ opt.timer /\ is_none(opt.on_calendar)
    /\ files0[service_path(opt)].exists
    /\ stdout = <<"Timer flag was specified but no OnCalendar\n">>

\* C3 (as stated): after a failed creation or write of the service file the
\* requested timer artifact is still attempted before the process exits (a
\* run ended by a panic of println! is let off).
C3_TimerAttemptedAfterServiceFailure ==
    Exited /\ exit_code # PanicExit /\ Failed(service_path(opt)) /\ opt.timer =>
        Attempted(timer_path(opt))

\* C4 (as stated): once 'Wrote service file <path>' was printed, the service
\* file holds exactly the rendered service text when the process has exited,
\* whatever the exit code (a run ended by a panic of println! is let off).
C4_ReportedServiceFileKeepsItsText ==
    Exited /\ exit_code # PanicExit /\ Printed("Wrote service file " \o service_path(opt)) =>
        files[service_path(opt)] = File(service(opt))

\* C10 (as stated): when creating or writing an artifact's file fails, the run
\* ends with a diagnostic naming that path and exit code 1 (a run whose
\* standard output does not take the diagnostic is let off: it ends with the
\* code of a panic, or with code 1 and the line lost), prints no confirmation
\* for the artifact, and the file is as it was before the run.
C10_FailedStepLeavesNoArtifact ==
    \A a \in {[path |-> service_path(opt), wrote |-> "Wrote service file "],
              [path |-> timer_path(opt), wrote |-> "Wrote timer file "]} :
        Failed(a.path) =>
            /\ Exited
            /\ \/ /\ exit_code = 1
                  /\ Len(stdout) > 0
                  /\ EndsWith(stdout[Len(stdout)], " file " \o a.path \o "\n")
                  /\ StartsWith(stdout[Len(stdout)], "Error ")
               \/ exit_code = PanicExit
               \/ exit_code = 1 /\ stdout_fd = "bad"
            /\ ~Printed(a.wrote \o a.path)
            /\ files[a.path] = files0[a.path]

-----------------------------------------------------------------------------
(* Claims about the renderers *)

ServiceRendered == ~is_none(rendered.service)
TimerRendered == ~is_none(rendered.timer)

\* the text Service::service returned, and its physical lines
ServiceText == rendered.service[1]
ServiceLines == Lines(ServiceText)
TimerText == rendered.timer[1]

\* the elements of a sequence of lines that start with "<key>="
WithKey(ls, key) == SelectSeq(ls, LAMBDA l : StartsWith(l, key \o "="))

\* the position of the first element equal to x (0: none)
IndexOf(ls, x) ==
    IF \E i \in 1..Len(ls) : ls[i] = x
    THEN CHOOSE i \in 1..Len(ls) : ls[i] = x /\ \A j \in 1..(i - 1) : ls[j] # x
    ELSE 0

Count(ls, x) == Cardinality({i \in 1..Len(ls) : ls[i] = x})

\* every value Service::service writes into the text
ServiceValues(o) ==
    {o.description[i] : i \in 1..Len(o.description)}
    \cup {o.before[i] : i \in 1..Len(o.before)}
    \cup {o.after[i] : i \in 1..Len(o.after)}
    \cup {o.conflicts[i] : i \in 1..Len(o.conflicts)}
    \cup {o.requires[i] : i \in 1..Len(o.requires)}
    \cup {o.on_failure[i] : i \in 1..Len(o.on_failure)}
    \cup {IF exists(p) THEN RealPath[p] ELSE p :
            p \in {o.exec_start}
                  \cup {o.exec_reload[i] : i \in 1..Len(o.exec_reload)}
                  \cup {o.exec_stop[i] : i \in 1..Len(o.exec_stop)}}
    \cup {o.user[i] : i \in 1..Len(o.user)}
    \cup {o.group[i] : i \in 1..Len(o.group)}
    \cup {o.wanted_by}

NoLineBreak(o) == \A v \in ServiceValues(o) : ~HasLineBreak(v)

IsHeaderLine(l) == StartsWith(l, "[") /\ EndsWith(l, "]")

\* C5 (as stated): the text has an OnFailure= line exactly when on_failure is
\* set, with the value of on_failure, as the last line of [Unit]; description
\* gives the one line Description=<description> and no other line.
C5_EachOptionFeedsItsOwnKey ==
    ServiceRendered =>
        LET unit == SubSeq(ServiceLines, 1, IndexOf(ServiceLines, "") - 1)
        IN  /\ WithKey(unit, "OnFailure")
                 = [i \in 1..Len(opt.on_failure) |-> "OnFailure=" \o opt.on_failure[i]]
            /\ ~is_none(opt.on_failure) =>
                 unit[Len(unit)] = "OnFailure=" \o opt.on_failure[1]
            /\ WithKey(unit, "Description")
                 = [i \in 1..Len(opt.description) |-> "Description=" \o opt.description[i]]

\* the statement of C6, for the text Service::service returned
ThreeHeaders ==
    /\ ServiceLines[1] = "[Unit]"
    /\ SelectSeq(ServiceLines, IsHeaderLine) = <<"[Unit]", "[Service]", "[Install]">>
    /\ \A i \in 1..Len(ServiceLines) :
         ServiceLines[i] \in {"[Service]", "[Install]"} =>
            /\ i > 2
            /\ ServiceLines[i - 1] = ""
            /\ ServiceLines[i - 2] # ""

\* C6 (as stated): for every options record, values written unescaped, the
\* service text starts with the line [Unit] and has exactly the three header
\* lines [Unit], [Service], [Install], the last two after one blank line.
C6_ThreeHeadersForEveryRecord == ServiceRendered => ThreeHeaders

\* C6 (amended): the same, for every options record none of whose written
\* values (option strings and resolved paths) contains a line break.
C6_ThreeHeadersWithoutLineBreaks ==
    ServiceRendered /\ NoLineBreak(opt) => ThreeHeaders

C6_Witness ==
    /\ ServiceRendered
    /\ NoLineBreak(opt)
    /\ opt.wanted_by = "[Install]"
    /\ ~is_none(opt.user)

\* the lines "<key>=<value>", one per value, each followed by nl
Expect(key, vals, nl) == [i \in 1..Len(vals) |-> key \o "=" \o vals[i] \o nl]

\* the path the claims call resolve(p)
resolve(p) == IF p \in DOMAIN RealPath THEN RealPath[p] ELSE p

\* the lines C7 lists for the [Service] section, each followed by nl
ExpectedServiceSection(o, nl) ==
    <<"Type=" \o ServiceType_fmt(o.service_type) \o nl>>
    \o <<"ExecStart=" \o resolve(o.exec_start) \o nl>>
    \o Expect("ExecReload", [i \in 1..Len(o.exec_reload) |-> resolve(o.exec_reload[i])], nl)
    \o Expect("ExecStop", [i \in 1..Len(o.exec_stop) |-> resolve(o.exec_stop[i])], nl)
    \o Expect("Restart", [i \in 1..Len(o.restart) |-> RestartType_fmt(o.restart[i])], nl)
    \o Expect("RestartSec", [i \in 1..Len(o.restart_sec) |-> ToString(o.restart_sec[i])], nl)
    \o Expect("User", o.user, nl)
    \o Expect("Group", o.group, nl)

\* C7: the [Service] section is Type=, ExecStart=<resolved>, then ExecReload=,
\* ExecStop=, Restart=, RestartSec=, User=, Group=, each once if its option is
\* set and absent otherwise, in this order.  Stated of the lines the renderer
\* emits between its two headers, for every record, and of the physical lines
\* of the returned text when no written value contains a line break.
C7_ServiceSectionLines ==
    ServiceRendered =>
        LET P == service_pushes(opt)
            ps == IndexOf(P, "\n[Service]\n")
            pt == IndexOf(P, "\n[Install]\n")
            L == ServiceLines
            ls == IndexOf(L, "[Service]")
            lt == IndexOf(L, "[Install]")
        IN  /\ ServiceText = Concat(P)
            /\ Count(P, "\n[Service]\n") = 1 /\ Count(P, "\n[Install]\n") = 1
            /\ ps < pt
            /\ SubSeq(P, ps + 1, pt - 1) = ExpectedServiceSection(opt, "\n")
            /\ NoLineBreak(opt) =>
                 /\ 0 < ls /\ ls < lt
                 /\ SubSeq(L, ls + 1, lt - 1) = ExpectedServiceSection(opt, "") \o <<"">>

C7_Witness ==
    /\ ServiceRendered
    /\ NoLineBreak(opt)
    /\ opt.exec_start = "bin/tool"
    /\ opt.exec_reload = Some("/nope/reload")
    /\ opt.exec_stop = Some("/opt/app/run")
    /\ opt.restart = Some("OnFailure")
    /\ opt.restart_sec = Some(5)
    /\ opt.user = Some("svc")
    /\ opt.group = Some("daemon")

\* the lines C8 lists for the timer text
ExpectedTimerLines(o, nl) ==
    <<"[Unit]" \o nl, nl, "[Timer]" \o nl>>
    \o Expect("OnCalendar", o.on_calendar, nl)
    \o Expect("OnUnitActiveSec", o.on_unit_active_sec, nl)
    \o Expect("OnUnitInactiveSec", o.on_unit_inactive_sec, nl)
    \o <<"Persistent=" \o (IF o.persistent THEN "true" ELSE "false") \o nl>>
    \o <<nl, "[Install]" \o nl, "WantedBy=timers.target" \o nl>>

\* C8: the timer text is [Unit] with no body, a blank line, [Timer] with
\* OnCalendar=, OnUnitActiveSec=, OnUnitInactiveSec= (each iff set, in this
\* order) and always one Persistent=true|false, a blank line, [Install] and
\* WantedBy=timers.target; it is a function of these four options alone.
C8_TimerText ==
    TimerRendered =>
        /\ TimerText = Concat(ExpectedTimerLines(opt, "\n"))
        /\ (\A v \in {opt.on_calendar, opt.on_unit_active_sec, opt.on_unit_inactive_sec} :
                v = None \/ ~HasLineBreak(v[1]))
             => Lines(TimerText) = ExpectedTimerLines(opt, "")

C8_Witness ==
    /\ TimerRendered
    /\ ~opt.persistent
    /\ opt.on_calendar = Some("daily")
    /\ is_none(opt.on_unit_active_sec)
    /\ opt.on_unit_inactive_sec = Some("30min")
    /\ opt.wanted_by = "default.target"
    /\ ~is_none(opt.accuracy_sec)
    /\ ~is_none(opt.user)

\* the place of a line among the groups of the [Unit] section (0: none)
UnitRank(l) ==
    CASE StartsWith(l, "Description=") -> 1
      [] StartsWith(l, "Before=")      -> 2
      [] StartsWith(l, "After=")       -> 3
      [] StartsWith(l, "Conflicts=")   -> 4
      [] StartsWith(l, "Requires=")    -> 5
      [] OTHER                         -> 0

\* in the lines ls, of which unit is the [Unit] section: each list option
\* gives its lines, one per element in input order, and no other line has its
\* key; the groups stand in the section in the order of their ranks
ListLines(ls, unit, o, nl) ==
    /\ \A kv \in {<<"Before", o.before>>, <<"After", o.after>>,
                  <<"Conflicts", o.conflicts>>, <<"Requires", o.requires>>} :
         /\ WithKey(ls, kv[1]) = Expect(kv[1], kv[2], nl)
         /\ WithKey(unit, kv[1]) = WithKey(ls, kv[1])
    /\ \A i \in 1..Len(unit), j \in 1..Len(unit) :
         i < j /\ UnitRank(unit[i]) > 0 /\ UnitRank(unit[j]) > 0
            => UnitRank(unit[i]) <= UnitRank(unit[j])

\* C9: each of before, after, conflicts, requires gives one <Key>=<element>
\* line per element, in input order, duplicates kept, and no other line has
\* that key; the groups stand in [Unit] in the order Before, After, Conflicts,
\* Requires, after Description.  Stated of the lines the renderer emits, for
\* every record, and of the physical lines of the returned text when no
\* written value contains a line break.
C9_ListLines ==
    ServiceRendered =>
        LET P == service_pushes(opt)
            L == ServiceLines
        IN  /\ ServiceText = Concat(P)
            /\ ListLines(P, SubSeq(P, 1, IndexOf(P, "\n[Service]\n") - 1), opt, "\n")
            /\ NoLineBreak(opt) =>
                 ListLines(L, SubSeq(L, 1, IndexOf(L, "") - 1), opt, "")

C9_Witness ==
    /\ ServiceRendered
    /\ NoLineBreak(opt)
    /\ ~is_none(opt.description)
    /\ opt.before = <<"b.service", "a.service">>
    /\ opt.after = <<"a.service", "a.service">>
    /\ opt.conflicts = <<>>
    /\ opt.requires = <<"r.service">>

====
